---------------------------- MODULE Spec2Model ----------------------------
(***************************************************************************)
(* A model of the tp-logger facade: the process-wide zap logger, its lazy  *)
(* initialization (package logger, src/logger.go) and the variant that     *)
(* requires an explicit Init (package tp_logger, src/unnamed/part_000).    *)
(*                                                                         *)
(* globalLogger and initialized are package-level variables that the code  *)
(* reads and writes with no synchronization.  Goroutines are modelled as   *)
(* threads; every load and store of the two variables is a step of its     *)
(* own.  The two variables are kept as the sequence of the stores made to  *)
(* them (the last element is the value in memory), and each goroutine has  *)
(* a position in each sequence: with no happens-before edge between        *)
(* goroutines, the Go memory model lets a load return any store that is    *)
(* not older than the one the goroutine has already seen (or made).  A     *)
(* single goroutine always loads the value in memory.                      *)
(***************************************************************************)
EXTENDS Naturals, Sequences, FiniteSets

VARIABLES
    variant,        \* "lazy" (src/logger.go) or "explicit" (src/unnamed/part_000)
    environ,        \* the process environment: SERVICE_NAME, APP_ENV, APP_VERSION
    globalLoggerW,  \* the stores to globalLogger, oldest first
    initializedW,   \* the stores to initialized, oldest first
    view,           \* view[t]: the newest store to each variable goroutine t has seen
    dirs,           \* the directories that exist
    files,          \* the log files that were opened (created)
    out,            \* the record the step just taken wrote (NoRecord: none)
    nextId,         \* the identity of the next logger constructed
    attempts,       \* how many times ensureInitialized has called Init
    ncalls,         \* how many exported functions were called
    halted,         \* "running", "exited" (os.Exit by Fatal) or "crashed" (panic)
    pc,             \* pc[t]: where goroutine t is in the call it makes
    op,             \* op[t]: the exported function goroutine t called last
    res,            \* res[t]: how that call ended
    loc             \* loc[t]: the call's arguments and local variables

vars == <<variant, environ, globalLoggerW, initializedW, view, dirs, files,
          out, nextId, attempts, ncalls, halted, pc, op, res, loc>>

mem == <<globalLoggerW, initializedW>>

(***************************************************************************)
(* Bounds and input sets                                                   *)
(***************************************************************************)
\* The calls made in all when both goroutines make calls, and when one
\* goroutine makes them all.
MaxCalls == 2

MaxSeqCalls == 3

Threads    == {1, 2}
SeqThreads == {1}

Variants == {"lazy", "explicit"}

\* The environment with none of the three variables set, and with all three.
Environs == {[SERVICE_NAME |-> "", APP_ENV |-> "", APP_VERSION |-> ""],
             [SERVICE_NAME |-> "svc", APP_ENV |-> "prod", APP_VERSION |-> "2.0"]}

\* A path is the sequence of its components; <<>> is the empty string.
TmpLog == <<"tmp", "t.log">>

Config(s, f, e, c) ==
    [ServiceName |-> s, LogFile |-> f, Environment |-> e, Version |-> "",
     Console |-> c]

\* The Configs Init is called with: the two that fail its checks, and valid
\* ones with each Environment.
Configs == {Config("", TmpLog, "", TRUE), Config("core", <<>>, "dev", FALSE),
            Config("core", TmpLog, "", TRUE), Config("core", TmpLog, "dev", FALSE),
            Config("core", TmpLog, "prod", FALSE)}

WithKeys   == {"k1", "k2"}
StructKeys == {"user"}

(***************************************************************************)
(* Values                                                                  *)
(***************************************************************************)
\* The nil *zap.SugaredLogger.
Nil ==
    [id |-> 0, by |-> "nil", service |-> "", env |-> "", version |-> "",
     level |-> "", development |-> FALSE, outputs |-> <<>>, callerSkip |-> 0,
     fields |-> {}]

NoConfig == Config("", <<>>, "", FALSE)

Last(s) == s[Len(s)]

\* filepath.Dir of a path with at least one component.
Dir(p) == SubSeq(p, 1, Len(p) - 1)

\* The directories os.MkdirAll(d) makes exist: d and its ancestors.
Ancestors(d) == {SubSeq(d, 1, k) : k \in 1..Len(d)}

LevelRank(l) ==
    CASE l = "debug" -> 0
      [] l = "info"  -> 1
      [] l = "warn"  -> 2
      [] l = "error" -> 3
      [] l = "panic" -> 4
      [] l = "fatal" -> 5

\* The exported logging functions and the severity each forwards to.
LogFns == {"Print", "Printf", "Println", "Fatal", "Fatalf", "Fatalln",
           "Panic", "Panicf", "Panicln", "Error", "Errorf", "Warn", "Warnf",
           "Info", "Infof", "Debug", "Debugf",
           "InfoStruct", "ErrorStruct", "DebugStruct", "WarnStruct"}

StructFns == {"InfoStruct", "ErrorStruct", "DebugStruct", "WarnStruct"}

LevelOf(fn) ==
    CASE fn \in {"Print", "Printf", "Println", "Info", "Infof", "InfoStruct"} -> "info"
      [] fn \in {"Fatal", "Fatalf", "Fatalln"} -> "fatal"
      [] fn \in {"Panic", "Panicf", "Panicln"} -> "panic"
      [] fn \in {"Error", "Errorf", "ErrorStruct"} -> "error"
      [] fn \in {"Warn", "Warnf", "WarnStruct"} -> "warn"
      [] fn \in {"Debug", "Debugf", "DebugStruct"} -> "debug"

\* What a logging function does with globalLogger: the severity of the
\* method it calls, and whether it passes keysAndValues (the ...w methods).
LogKinds == {<<LevelOf(fn), fn \in StructFns>> : fn \in LogFns}

(***************************************************************************)
(* Init's pure parts                                                       *)
(***************************************************************************)
\* The Config ensureInitialized builds from SERVICE_NAME.
LazyConfig(e) ==
    LET serviceName == IF e.SERVICE_NAME = "" THEN "app" ELSE e.SERVICE_NAME
    IN  [ServiceName |-> serviceName,
         LogFile     |-> <<"app", "logs", serviceName \o ".log">>,
         Environment |-> "",
         Version     |-> "",
         Console     |-> FALSE]

\* Mutant: Init without its LogFile check.
ValidationError_NoLogFileCheck(c) ==
    IF c.ServiceName = "" THEN "ServiceName is required" ELSE "nil"

\* Init's validation: the error it returns first, "nil" when there is none.
ValidationError(c) ==
    IF c.ServiceName = "" THEN "ServiceName is required"
    ELSE IF c.LogFile = <<>> THEN "LogFile is required"
    ELSE "nil"

\* Mutant: the Environment default that skips APP_ENV.
ResolveEnvironment_IgnoresAppEnv(c, e) ==
    IF c.Environment # "" THEN c.Environment ELSE "dev"

ResolveEnvironment(c, e) ==
    IF c.Environment # "" THEN c.Environment
    ELSE IF e.APP_ENV # "" THEN e.APP_ENV
    ELSE "dev"

ResolveVersion(c, e) ==
    IF c.Version # "" THEN c.Version
    ELSE IF e.APP_VERSION # "" THEN e.APP_VERSION
    ELSE "1.0.0"

SetDefaults(c, e) ==
    [c EXCEPT !.Environment = ResolveEnvironment(c, e),
              !.Version     = ResolveVersion(c, e)]

OutputPaths(c) ==
    (IF c.Console THEN <<"stdout">> ELSE <<>>) \o <<c.LogFile>>

\* zap.NewProductionConfig is info level and not in development mode.
DevelopmentOf(c) == c.Environment = "dev"

MinLevelOf(c) == IF c.Environment = "dev" THEN "debug" ELSE "info"

\* The logger config.Build(zap.AddCallerSkip(1)) returns for the resolved
\* Config c; by: who called Init ("ensureInitialized", or "Init" for a call
\* from outside the package), kept with the logger to tell a lazily built
\* instance from one an explicit Init built.
BuildLogger(c, id, by) ==
    [id          |-> id,
     by          |-> by,
     service     |-> c.ServiceName,
     env         |-> c.Environment,
     version     |-> c.Version,
     level       |-> MinLevelOf(c),
     development |-> DevelopmentOf(c),
     outputs     |-> OutputPaths(c),
     callerSkip  |-> 1,
     fields      |-> {}]

\* The logger ensureInitialized builds when Init failed:
\* zap.NewDevelopmentConfig with OutputPaths = {"stdout"}.
FallbackLogger(id) ==
    [id          |-> id,
     by          |-> "fallback",
     service     |-> "",
     env         |-> "",
     version     |-> "",
     level       |-> "debug",
     development |-> TRUE,
     outputs     |-> <<"stdout">>,
     callerSkip  |-> 0,
     fields      |-> {}]

\* globalLogger.With(keysAndValues...): a new logger, the receiver unchanged.
With(l, keys) == [l EXCEPT !.fields = l.fields \cup keys]

\* The record logger l writes for a call at severity lv with the keys ks.
Record(l, lv, ks) ==
    [logger |-> l.id, level |-> lv, keys |-> l.fields \cup ks,
     outputs |-> l.outputs]

NoRecord == [logger |-> 0, level |-> "", keys |-> {}, outputs |-> <<>>]

\* A record below the logger's minimum severity is not written.
Enabled(l, lv) == LevelRank(lv) >= LevelRank(l.level)

\* The local variables of a call before it has run:
\*   arg    the Config that Init was called with
\*   cfg    Init's copy of it, which Init sets the defaults in
\*   built  the logger Init's config.Build returned
\*   pre    the number of stores to globalLogger and to initialized when
\*          Init was entered
Fresh == [arg |-> NoConfig, cfg |-> NoConfig, built |-> Nil, pre |-> <<0, 0>>]

\* What a call returned: how it ended (the error's text for a failed Init)
\* and, for WithFields, the logger.
Result(s, l) == [status |-> s, logger |-> l]

(***************************************************************************)
(* The initial state: no logger, initialized = false, /tmp exists.         *)
(***************************************************************************)
Init ==
    /\ variant \in Variants
    /\ environ \in Environs
    /\ globalLoggerW = <<Nil>>
    /\ initializedW = <<FALSE>>
    /\ view = [t \in Threads |-> [g |-> 1, i |-> 1]]
    /\ dirs = {<<"tmp">>}
    /\ files = {}
    /\ out = NoRecord
    /\ nextId = 1
    /\ attempts = 0
    /\ ncalls = 0
    /\ halted = "running"
    /\ pc = [t \in Threads |-> "idle"]
    /\ op = [t \in Threads |-> "none"]
    /\ res = [t \in Threads |-> Result("none", Nil)]
    /\ loc = [t \in Threads |-> Fresh]

(***************************************************************************)
(* How a call begins and ends                                              *)
(***************************************************************************)
CanCall(t) ==
    /\ halted = "running"
    /\ pc[t] = "idle"
    /\ \/ ncalls < MaxCalls
       \/ ncalls < MaxSeqCalls /\ \A u \in Threads \ {t} : op[u] = "none"

\* Goroutine t calls the exported function o.
Calls(t, o) ==
    /\ CanCall(t)
    /\ op' = [op EXCEPT ![t] = o]
    /\ res' = [res EXCEPT ![t] = Result("none", Nil)]
    /\ ncalls' = ncalls + 1

\* The call returns: status s and the logger l.
Returns(t, s, l) ==
    /\ pc' = [pc EXCEPT ![t] = "idle"]
    /\ res' = [res EXCEPT ![t] = Result(s, l)]
    /\ loc' = [loc EXCEPT ![t] = Fresh]
    /\ UNCHANGED halted

\* The call panics: the caller recovers, or the process dies.
Panics(t, s) ==
    /\ pc' = [pc EXCEPT ![t] = "idle"]
    /\ res' = [res EXCEPT ![t] = Result(s, Nil)]
    /\ loc' = [loc EXCEPT ![t] = Fresh]
    /\ halted' \in {"running", "crashed"}

\* Init returns e ("nil": no error) to its caller: to ensureInitialized,
\* which goes on; to the caller of Init; to MustInit, which panics on an error.
InitReturns(t, e) ==
    CASE op[t] = "Log" ->
            /\ pc' = [pc EXCEPT ![t] = IF e = "nil" THEN "setInitialized" ELSE "fallback"]
            /\ UNCHANGED <<res, loc, halted>>
      [] op[t] = "Init" -> Returns(t, IF e = "nil" THEN "ok" ELSE e, Nil)
      [] op[t] = "MustInit" ->
            IF e = "nil" THEN Returns(t, "ok", Nil)
            ELSE Panics(t, "Failed to initialize logger: " \o e)

(***************************************************************************)
(* Init                                                                    *)
(***************************************************************************)
\* Init is entered with the Config c.
InitEnter(t, c) ==
    /\ loc' = [loc EXCEPT ![t] =
                  [Fresh EXCEPT !.arg = c, !.cfg = c,
                                !.pre = <<Len(globalLoggerW), Len(initializedW)>>]]
    /\ pc' = [pc EXCEPT ![t] = "Init"]

InitCall(t) ==
    /\ Calls(t, "Init")
    /\ \E c \in Configs : InitEnter(t, c)
    /\ out' = NoRecord
    /\ UNCHANGED <<variant, environ, mem, view, dirs, files, nextId,
                   attempts, halted>>

MustInit(t) ==
    /\ Calls(t, "MustInit")
    /\ \E c \in Configs : InitEnter(t, c)
    /\ out' = NoRecord
    /\ UNCHANGED <<variant, environ, mem, view, dirs, files, nextId,
                   attempts, halted>>

\* Init's two checks, and the defaults it sets in cfg.  The lazy variant
\* goes on to MkdirAll, the explicit one to Build.
InitValidate(t) ==
    /\ halted = "running"
    /\ pc[t] = "Init"
    /\ IF ValidationError(loc[t].cfg) = "nil"
         THEN /\ loc' = [loc EXCEPT ![t].cfg = SetDefaults(loc[t].cfg, environ)]
              /\ pc' = [pc EXCEPT ![t] = IF variant = "lazy" THEN "MkdirAll" ELSE "Build"]
              /\ UNCHANGED <<res, halted>>
         ELSE InitReturns(t, ValidationError(loc[t].cfg))
    /\ out' = NoRecord
    /\ UNCHANGED <<variant, environ, mem, view, dirs, files, nextId,
                   attempts, ncalls, op>>

\* Mutant: Init that sets initialized before it creates the directory.
InitMkdirAll_MarksInitialized(t) ==
    /\ halted = "running"
    /\ pc[t] = "MkdirAll"
    /\ initializedW' = Append(initializedW, TRUE)
    /\ view' = [view EXCEPT ![t].i = Len(initializedW) + 1]
    /\ \/ /\ dirs' = dirs \cup Ancestors(Dir(loc[t].cfg.LogFile))
          /\ pc' = [pc EXCEPT ![t] = "Build"]
          /\ UNCHANGED <<res, loc, halted>>
       \/ /\ InitReturns(t, "failed to create log directory")
          /\ UNCHANGED dirs
    /\ out' = NoRecord
    /\ UNCHANGED <<variant, environ, globalLoggerW, files, nextId, attempts,
                   ncalls, op>>

\* os.MkdirAll(filepath.Dir(cfg.LogFile), 0755): it may fail.
InitMkdirAll(t) ==
    /\ halted = "running"
    /\ pc[t] = "MkdirAll"
    /\ \/ /\ dirs' = dirs \cup Ancestors(Dir(loc[t].cfg.LogFile))
          /\ pc' = [pc EXCEPT ![t] = "Build"]
          /\ UNCHANGED <<res, loc, halted>>
       \/ /\ InitReturns(t, "failed to create log directory")
          /\ UNCHANGED dirs
    /\ out' = NoRecord
    /\ UNCHANGED <<variant, environ, mem, view, files, nextId, attempts,
                   ncalls, op>>

\* config.Build(zap.AddCallerSkip(1)) opens the log file: it fails when the
\* directory is missing, and may fail otherwise.
InitBuild(t) ==
    /\ halted = "running"
    /\ pc[t] = "Build"
    /\ \/ /\ Dir(loc[t].cfg.LogFile) \in dirs
          /\ files' = files \cup {loc[t].cfg.LogFile}
          /\ nextId' = nextId + 1
          /\ loc' = [loc EXCEPT ![t].built = BuildLogger(loc[t].cfg, nextId,
                                                       IF op[t] = "Log" THEN "ensureInitialized" ELSE "Init")]
          /\ pc' = [pc EXCEPT ![t] = "storeLogger"]
          /\ UNCHANGED <<res, halted>>
       \/ /\ InitReturns(t, "failed to build logger")
          /\ UNCHANGED <<files, nextId>>
    /\ out' = NoRecord
    /\ UNCHANGED <<variant, environ, mem, view, dirs, attempts, ncalls, op>>

\* Mutant: Init that keeps a logger that is already installed.
InitStoreLogger_KeepsInstalled(t) ==
    /\ halted = "running"
    /\ pc[t] = "storeLogger"
    /\ globalLoggerW' = IF Last(globalLoggerW) = Nil
                          THEN Append(globalLoggerW, loc[t].built)
                          ELSE Append(globalLoggerW, Last(globalLoggerW))
    /\ view' = [view EXCEPT ![t].g = Len(globalLoggerW) + 1]
    /\ IF variant = "lazy"
         THEN /\ pc' = [pc EXCEPT ![t] = "storeInitialized"]
              /\ UNCHANGED <<res, loc, halted>>
         ELSE InitReturns(t, "nil")
    /\ out' = NoRecord
    /\ UNCHANGED <<variant, environ, initializedW, dirs, files, nextId,
                   attempts, ncalls, op>>

\* globalLogger = logger.Sugar()
InitStoreLogger(t) ==
    /\ halted = "running"
    /\ pc[t] = "storeLogger"
    /\ globalLoggerW' = Append(globalLoggerW, loc[t].built)
    /\ view' = [view EXCEPT ![t].g = Len(globalLoggerW) + 1]
    /\ IF variant = "lazy"
         THEN /\ pc' = [pc EXCEPT ![t] = "storeInitialized"]
              /\ UNCHANGED <<res, loc, halted>>
         ELSE InitReturns(t, "nil")
    /\ out' = NoRecord
    /\ UNCHANGED <<variant, environ, initializedW, dirs, files, nextId,
                   attempts, ncalls, op>>

\* initialized = true; return nil (the lazy variant only)
InitStoreInitialized(t) ==
    /\ halted = "running"
    /\ pc[t] = "storeInitialized"
    /\ initializedW' = Append(initializedW, TRUE)
    /\ view' = [view EXCEPT ![t].i = Len(initializedW) + 1]
    /\ InitReturns(t, "nil")
    /\ out' = NoRecord
    /\ UNCHANGED <<variant, environ, globalLoggerW, dirs, files, nextId,
                   attempts, ncalls, op>>

(***************************************************************************)
(* The logging functions                                                   *)
(***************************************************************************)
\* A call of one of the logging functions.  The lazy variant's begin with
\* ensureInitialized(); the explicit variant's use globalLogger at once.
\* Which of the functions it is matters from Emit on, and is chosen there.
LogCall(t) ==
    /\ Calls(t, "Log")
    /\ pc' = [pc EXCEPT ![t] = IF variant = "lazy" THEN "ensureInitialized" ELSE "emit"]
    /\ out' = NoRecord
    /\ UNCHANGED <<variant, environ, mem, view, dirs, files, nextId,
                   attempts, halted, loc>>

\* ensureInitialized: the load of initialized, and when it is false the
\* call of Init with the defaults.
EnsureInitialized(t) ==
    /\ halted = "running"
    /\ pc[t] = "ensureInitialized"
    /\ \E k \in view[t].i .. Len(initializedW) :
          /\ view' = [view EXCEPT ![t].i = k]
          /\ IF initializedW[k]
               THEN /\ pc' = [pc EXCEPT ![t] = "emit"]
                    /\ UNCHANGED <<loc, attempts>>
               ELSE /\ attempts' = attempts + 1
                    /\ InitEnter(t, LazyConfig(environ))
    /\ out' = NoRecord
    /\ UNCHANGED <<variant, environ, mem, dirs, files, nextId, ncalls,
                   halted, op, res>>

\* Mutant: the fallback that builds its logger and does not install it.
EnsureFallback_NoStore(t) ==
    /\ halted = "running"
    /\ pc[t] = "fallback"
    /\ nextId' = nextId + 1
    /\ pc' = [pc EXCEPT ![t] = "setInitialized"]
    /\ out' = NoRecord
    /\ UNCHANGED <<variant, environ, mem, view, dirs, files, attempts,
                   ncalls, halted, op, res, loc>>

\* ensureInitialized after Init failed: the console-only development logger.
\* The code drops the error of this Build; a development config whose only
\* output is stdout opens no file, and the Build is taken to succeed.
EnsureFallback(t) ==
    /\ halted = "running"
    /\ pc[t] = "fallback"
    /\ globalLoggerW' = Append(globalLoggerW, FallbackLogger(nextId))
    /\ view' = [view EXCEPT ![t].g = Len(globalLoggerW) + 1]
    /\ nextId' = nextId + 1
    /\ pc' = [pc EXCEPT ![t] = "setInitialized"]
    /\ out' = NoRecord
    /\ UNCHANGED <<variant, environ, initializedW, dirs, files, attempts,
                   ncalls, halted, op, res, loc>>

\* Mutant: ensureInitialized that sets initialized only where Init does.
EnsureSetInitialized_Skipped(t) ==
    /\ halted = "running"
    /\ pc[t] = "setInitialized"
    /\ pc' = [pc EXCEPT ![t] = "emit"]
    /\ out' = NoRecord
    /\ UNCHANGED <<variant, environ, mem, view, dirs, files, nextId,
                   attempts, ncalls, halted, op, res, loc>>

\* ensureInitialized's last statement: initialized = true.
EnsureSetInitialized(t) ==
    /\ halted = "running"
    /\ pc[t] = "setInitialized"
    /\ initializedW' = Append(initializedW, TRUE)
    /\ view' = [view EXCEPT ![t].i = Len(initializedW) + 1]
    /\ pc' = [pc EXCEPT ![t] = "emit"]
    /\ out' = NoRecord
    /\ UNCHANGED <<variant, environ, globalLoggerW, dirs, files, nextId,
                   attempts, ncalls, halted, op, res, loc>>

\* globalLogger.Info(...), Errorw(...), ...: the load of globalLogger and
\* the method call on it.  A nil receiver is a nil pointer dereference;
\* Fatal exits the process and Panic panics after the record is written.
Emit(t) ==
    /\ halted = "running"
    /\ pc[t] = "emit"
    /\ \E k \in view[t].g .. Len(globalLoggerW), kind \in LogKinds :
          LET l  == globalLoggerW[k]
              lv == kind[1]
              ks == IF kind[2] THEN StructKeys ELSE {}
          IN  /\ view' = [view EXCEPT ![t].g = k]
              /\ IF l = Nil
                   THEN /\ Panics(t, "nil dereference")
                        /\ out' = NoRecord
                   ELSE /\ out' = IF Enabled(l, lv) THEN Record(l, lv, ks) ELSE NoRecord
                        /\ CASE lv = "fatal" ->
                                   /\ pc' = [pc EXCEPT ![t] = "idle"]
                                   /\ res' = [res EXCEPT ![t] = Result("exit", Nil)]
                                   /\ loc' = [loc EXCEPT ![t] = Fresh]
                                   /\ halted' = "exited"
                             [] lv = "panic" -> Panics(t, "panic")
                             [] OTHER -> Returns(t, "ok", Nil)
    /\ UNCHANGED <<variant, environ, mem, dirs, files, nextId, attempts, ncalls, op>>

(***************************************************************************)
(* WithFields and Sync                                                     *)
(***************************************************************************)
\* Mutant: WithFields that installs the logger it derives.
WithFields_Installs(t) ==
    /\ CanCall(t)
    /\ op' = [op EXCEPT ![t] = "WithFields"]
    /\ ncalls' = ncalls + 1
    /\ \E k \in view[t].g .. Len(globalLoggerW) :
          IF globalLoggerW[k] = Nil
            THEN /\ Panics(t, "nil dereference")
                 /\ view' = [view EXCEPT ![t].g = k]
                 /\ UNCHANGED globalLoggerW
            ELSE /\ Returns(t, "ok", With(globalLoggerW[k], WithKeys))
                 /\ globalLoggerW' = Append(globalLoggerW, With(globalLoggerW[k], WithKeys))
                 /\ view' = [view EXCEPT ![t].g = Len(globalLoggerW) + 1]
    /\ out' = NoRecord
    /\ UNCHANGED <<variant, environ, initializedW, dirs, files, nextId, attempts>>

\* return globalLogger.With(keysAndValues...), with no ensureInitialized.
WithFields(t) ==
    /\ CanCall(t)
    /\ op' = [op EXCEPT ![t] = "WithFields"]
    /\ ncalls' = ncalls + 1
    /\ \E k \in view[t].g .. Len(globalLoggerW) :
          /\ view' = [view EXCEPT ![t].g = k]
          /\ IF globalLoggerW[k] = Nil
               THEN Panics(t, "nil dereference")
               ELSE Returns(t, "ok", With(globalLoggerW[k], WithKeys))
    /\ out' = NoRecord
    /\ UNCHANGED <<variant, environ, mem, dirs, files, nextId, attempts>>

\* if globalLogger != nil { globalLogger.Sync() } (the explicit variant only)
Sync(t) ==
    /\ variant = "explicit"
    /\ CanCall(t)
    /\ op' = [op EXCEPT ![t] = "Sync"]
    /\ ncalls' = ncalls + 1
    /\ \E k \in view[t].g .. Len(globalLoggerW) :
          /\ view' = [view EXCEPT ![t].g = k]
          /\ Returns(t, "ok", Nil)
    /\ out' = NoRecord
    /\ UNCHANGED <<variant, environ, mem, dirs, files, nextId, attempts>>

(***************************************************************************)
(* Specifications                                                          *)
(***************************************************************************)
Step(t) ==
    \/ InitCall(t)
    \/ MustInit(t)
    \/ InitValidate(t)
    \/ InitMkdirAll(t)
    \/ InitBuild(t)
    \/ InitStoreLogger(t)
    \/ InitStoreInitialized(t)
    \/ LogCall(t)
    \/ EnsureInitialized(t)
    \/ EnsureFallback(t)
    \/ EnsureSetInitialized(t)
    \/ Emit(t)
    \/ WithFields(t)
    \/ Sync(t)

\* Two goroutines that call the package with no synchronization.
Next == \E t \in Threads : Step(t)

Spec == Init /\ [][Next]_vars

\* One goroutine: the calls are made one after another.
SeqNext == \E t \in SeqThreads : Step(t)

SeqSpec == Init /\ [][SeqNext]_vars

(***************************************************************************)
(* Properties                                                              *)
(***************************************************************************)
Lazy == variant = "lazy"

\* The loggers constructed so far: by Init's Build and by the fallback.
Constructions == nextId - 1

\* The stores to globalLogger made on behalf of ensureInitialized.
LazyStores ==
    {k \in 1..Len(globalLoggerW) :
        globalLoggerW[k].by \in {"ensureInitialized", "fallback"}}

InvalidConfig(c) == c.ServiceName = "" \/ c.LogFile = <<>>

InInit(t) == pc[t] \in {"Init", "MkdirAll", "Build", "storeLogger", "storeInitialized"}

\* C1: when the first call of each of two goroutines is a logging call, on a
\* process where nothing was built, exactly one logger is constructed: never
\* two, and one once both calls have returned.
C1_ExactlyOneConstruction ==
    (Lazy /\ ncalls = 2 /\ \A t \in Threads : op[t] = "Log")
        => /\ Constructions <= 1
           /\ (\A t \in Threads : pc[t] = "idle") => Constructions = 1

\* C2: with the calls made one after another, ensureInitialized calls Init at
\* most once in the life of the process, exactly once when no explicit Init
\* has installed a logger, and a logging call that is past ensureInitialized
\* finds initialized = true, after the fallback as after a successful Init.
C2_OneAttempt ==
    Lazy =>
        /\ attempts <= 1
        /\ \A t \in SeqThreads :
              (op[t] = "Log" /\ pc[t] \in {"emit", "idle"}) =>
                  /\ Last(initializedW) = TRUE
                  /\ (\A k \in 1..Len(globalLoggerW) : globalLoggerW[k].by # "Init")
                        => attempts = 1

\* A later logging call, which made no attempt, after the one attempt ended
\* in the fallback.
C2_Witness ==
    /\ Lazy
    /\ attempts = 1
    /\ \E k \in 1..Len(globalLoggerW) : globalLoggerW[k].by = "fallback"
    /\ op[1] = "Log" /\ pc[1] = "emit" /\ loc[1].arg = NoConfig

\* C3: in the lazy variant no logging call calls a method on a nil
\* globalLogger, whatever the interleaving of logging calls and Init calls.
C3_NoNilLogger ==
    Lazy => \A t \in Threads : op[t] = "Log" => res[t].status # "nil dereference"

C5_InitReplaces ==
    [][\A t \in SeqThreads :
          (Lazy /\ LazyStores # {}) =>
              /\ (pc[t] = "Init" /\ op[t] \in {"Init", "MustInit"}
                    /\ ~InvalidConfig(loc[t].arg) /\ pc'[t] # "Init")
                 => pc'[t] = "MkdirAll"
              /\ (pc[t] = "storeLogger" /\ op[t] \in {"Init", "MustInit"}
                    /\ pc'[t] # "storeLogger")
                 => /\ Last(globalLoggerW') = loc[t].built
                    /\ loc[t].built.by = "Init"
                    /\ \A k \in LazyStores : globalLoggerW[k].id # loc[t].built.id
              /\ (pc[t] = "emit" /\ Last(globalLoggerW).by = "Init"
                    /\ out' # NoRecord)
                 => /\ out'.logger = Last(globalLoggerW).id
                    /\ \A k \in LazyStores : out'.logger # globalLoggerW[k].id]_vars

\* A record the explicitly built logger has written after it replaced a
\* lazily installed one.
C5_Witness ==
    /\ Lazy
    /\ LazyStores # {}
    /\ Last(globalLoggerW).by = "Init"
    /\ out # NoRecord
    /\ out.logger = Last(globalLoggerW).id

\* C6: WithFields stores neither to globalLogger nor to initialized, the
\* logger it returns is a logger that was installed with the given fields
\* added, and no record a logging function writes has those fields.
C6_WithFieldsDerives ==
    [][/\ \A t \in Threads :
             (pc[t] = "idle" /\ ncalls' = ncalls + 1 /\ op'[t] = "WithFields"
                /\ pc'[t] = "idle" /\ res'[t].status = "ok")
             => /\ UNCHANGED mem
                /\ \E k \in 1..Len(globalLoggerW) :
                      /\ globalLoggerW[k] # Nil
                      /\ res'[t].logger =
                            [globalLoggerW[k] EXCEPT !.fields = @ \cup WithKeys]
       /\ out' # NoRecord => out'.keys \cap WithKeys = {}]_vars

\* A record written by a logging function while a goroutine holds the
\* logger WithFields returned.
C6_Witness ==
    /\ \E t \in Threads :
          /\ op[t] = "WithFields" /\ res[t].status = "ok"
          /\ WithKeys \subseteq res[t].logger.fields
    /\ out # NoRecord
    /\ Last(globalLoggerW).fields = {}

C8_FailedInitKeepsState ==
    [][\A t \in SeqThreads :
          (InInit(t) /\ (\/ pc'[t] = "fallback"
                         \/ pc'[t] = "idle" /\ res'[t].status # "ok"))
          => /\ UNCHANGED mem
             /\ Len(globalLoggerW) = loc[t].pre[1]
             /\ Len(initializedW) = loc[t].pre[2]]_vars

\* Init has failed at Build once a logger was installed, which still is.
C8_Witness ==
    \E t \in SeqThreads :
        /\ op[t] = "Init" /\ pc[t] = "idle"
        /\ res[t].status = "failed to build logger"
        /\ Last(globalLoggerW) # Nil
        /\ Lazy => Last(initializedW) = TRUE

\* C9: in the lazy variant, whenever initialized is true in memory,
\* globalLogger is not nil in memory; no store sets globalLogger to nil or
\* initialized to false.
C9_InitializedImpliesLogger ==
    Lazy =>
        /\ Last(initializedW) = TRUE => Last(globalLoggerW) # Nil
        /\ \A k \in 2..Len(globalLoggerW) : globalLoggerW[k] # Nil
        /\ \A k \in 2..Len(initializedW) : initializedW[k] = TRUE

\* Both goroutines have installed a logger, one of them the fallback, and
\* initialized is true.
C9_Witness ==
    /\ Lazy
    /\ Last(initializedW) = TRUE
    /\ Len(globalLoggerW) >= 3
    /\ \E k \in 1..Len(globalLoggerW) : globalLoggerW[k].by = "fallback"
    /\ \A t \in Threads : op[t] # "none"

\* C10: in the lazy variant, with the calls made one after another, no
\* exported function, WithFields included, calls a method on a nil
\* globalLogger.
C10_NoNilLoggerAtAll ==
    Lazy => \A t \in SeqThreads : res[t].status # "nil dereference"

=============================================================================
